---- MODULE Spec2Model ----
(***************************************************************************)
(* Model of the NFe ingestion backend (src/src/routes/notas.js with the   *)
(* Nota schema of src/src/models/Nota.js).                                 *)
(*                                                                         *)
(* The handlers are async functions on a single-threaded event loop: the  *)
(* code between two awaits runs atomically, and requests interleave only  *)
(* at the awaits.  Each action below is one such segment: it starts with  *)
(* the completion of the awaited store / renderer / stream call and runs  *)
(* to the next await (or to the response).                                *)
(*                                                                         *)
(* Strings that the code inspects (the NFe identifier, the number) are    *)
(* sequences of one-character strings; Undefined stands for a JavaScript  *)
(* undefined field.                                                        *)
(***************************************************************************)
EXTENDS Integers, Sequences, FiniteSets, TLC

\* ------------------------------------------------------------------ bounds
\* number of POST /api/notas requests of a run
MaxReq == 2
\* number of DELETE handlers (DELETE /api/notas/:id or DELETE /api/notas) that
\* can be in flight together
MaxDel == 1

\* number of GET /api/notas/:id/pdf requests that can be in flight together
MaxGet == 2

\* number of Records in the collection that GET /api/notas lists
MaxNotas == 3

\* number of distinct criadoEm instants of those Records
MaxTime == 2

\* largest page size (limit) asked for
MaxLimit == 2

\* length of the longest NFe identifier (infNFe.$.Id or infNFe.id)
MaxIdLen == 7

\* number of det elements (line items) of the largest document
MaxDet == 3

Reqs == 1..MaxReq
Dels == 1..MaxDel
Gets == 1..MaxGet

\* the page numbers asked for: one more than the Records can fill
Pages == 1..(MaxNotas + 1)

\* ObjectIds: new Nota(...) and bucket.openUploadStream(...) each take a new
\* ObjectId, which the driver never hands out twice.  The ids of a run are
\* named after the request that took them.

\* ------------------------------------------------------------------ values
Undefined == <<"undefined">>
NoFile == 0

\* Truthy that takes the empty string for a value (a check against undefined
\* only).
TruthyNotUndefined(v) == v /= Undefined

\* JavaScript truthiness of a string-or-undefined value (notas.js:27, 58)
Truthy(v) == v /= Undefined /\ v /= <<>>

\* String.prototype.startsWith(prefix)
StartsWith(s, prefix) ==
  /\ Len(s) >= Len(prefix)
  /\ SubSeq(s, 1, Len(prefix)) = prefix

\* String.prototype.substring(n) (n characters dropped from the front)
Substring(s, n) == SubSeq(s, n + 1, Len(s))

NFePrefix == <<"N", "F", "e">>

\* ---------------------------------------------------------------- documents
\* An uploaded request body, as xml2js (explicitArray: false) yields it:
\*   file    req.file is present
\*   xml     the text parses as XML (parseStringPromise resolves)
\*   struct  nfeProc.NFe.infNFe is present
\*   ide     infNFe.ide is present
\*   nNF     infNFe.ide.nNF
\*   attrs   infNFe.$ is present;  attrId = infNFe.$.Id;  id = infNFe.id
\*   emit    infNFe.emit is present
\*   det     infNFe.det: "array", "single" or "absent"
\*   total   infNFe.total.ICMSTot is present
\*   vNF     infNFe.total.ICMSTot.vNF: "num" (parseFloat gives a number),
\*           "nan" (parseFloat gives NaN)
Doc(nNF, attrs, attrId, id) ==
  [file |-> TRUE, xml |-> TRUE, struct |-> TRUE, ide |-> TRUE, nNF |-> nNF,
   attrs |-> attrs, attrId |-> attrId, id |-> id,
   emit |-> TRUE, det |-> "single", total |-> TRUE, vNF |-> "num"]

ValidDocs ==
  { Doc(<<"1">>, TRUE, NFePrefix \o <<"A">>, Undefined),
    Doc(<<"2">>, TRUE, <<"A">>, Undefined),
    Doc(<<"1">>, FALSE, Undefined, NFePrefix \o <<"B">>),
    [Doc(<<"2">>, TRUE, NFePrefix \o <<"B">>, Undefined) EXCEPT !.det = "array"] }

BaseDoc == Doc(<<"1">>, TRUE, NFePrefix \o <<"A">>, Undefined)

InvalidDocs ==
  { [BaseDoc EXCEPT !.file = FALSE],
    [BaseDoc EXCEPT !.xml = FALSE],
    [BaseDoc EXCEPT !.struct = FALSE],
    [BaseDoc EXCEPT !.ide = FALSE],
    [BaseDoc EXCEPT !.nNF = Undefined],
    [BaseDoc EXCEPT !.nNF = <<>>],
    [BaseDoc EXCEPT !.attrId = NFePrefix],
    [BaseDoc EXCEPT !.attrId = Undefined],
    [BaseDoc EXCEPT !.attrs = FALSE],
    [BaseDoc EXCEPT !.emit = FALSE],
    [BaseDoc EXCEPT !.det = "absent"],
    [BaseDoc EXCEPT !.total = FALSE],
    [BaseDoc EXCEPT !.vNF = "nan"] }

Docs == ValidDocs \cup InvalidDocs

NoDoc == [BaseDoc EXCEPT !.file = FALSE]

\* extrairChaveNFe that strips the prefix a second time when the result still
\* starts with it (a loop in place of the single test).
extrairChaveNFeTwice(infNFe) ==
  LET id == IF infNFe.attrs THEN infNFe.attrId ELSE infNFe.id
      once == IF Truthy(id) /\ StartsWith(id, NFePrefix)
                THEN Substring(id, 3) ELSE id
  IN IF Truthy(once) /\ StartsWith(once, NFePrefix)
       THEN Substring(once, 3) ELSE once

\* extrairChaveNFe(infNFe)
extrairChaveNFe(infNFe) ==
  LET id == IF infNFe.attrs THEN infNFe.attrId ELSE infNFe.id
  IN IF Truthy(id) /\ StartsWith(id, NFePrefix) THEN Substring(id, 3) ELSE id


\* ------------------------------------------------------------------- state
VARIABLES
  notas,       \* the "notas" collection: records [_id, numero, chaveNFe, pdfFileId]
  pdfsFiles,   \* _id of the documents of the GridFS collection pdfs.files
  pdfsChunks,  \* files_id of the documents of the GridFS collection pdfs.chunks
  req,         \* POST /api/notas handlers
  del,         \* DELETE /api/notas/:id and DELETE /api/notas handlers
  readyState,  \* mongoose.connection.readyState: 1 connected, 0 disconnected
  bucket,      \* server.js "let bucket": TRUE once a GridFSBucket was assigned
  get,         \* GET /api/notas/:id/pdf handlers
  list,        \* GET /api/notas: the answers to the pages of one query
  call         \* an application of a function of notas.js: argument, result

vars == <<notas, pdfsFiles, pdfsChunks, req, del, readyState, bucket, get,
          list, call>>
store == <<notas, pdfsFiles, pdfsChunks>>
server == <<readyState, bucket, get, list, call>>

IdleReq ==
  [pc |-> "idle", doc |-> NoDoc, numero |-> Undefined, chaveNFe |-> Undefined,
   notaId |-> NoFile, fileId |-> NoFile, status |-> 0,
   fault |-> "none", endpc |-> "idle", seen |-> NoFile]

\* route: "id" for DELETE /api/notas/:id, "all" for DELETE /api/notas
\* fault: "bucket" when bucket.delete rejected, "store" when a store call of
\* the handler rejected;  at: the pc at which the request ended
IdleDel ==
  [pc |-> "idle", route |-> "id", id |-> NoFile, pdfFileId |-> NoFile,
   status |-> 0, fault |-> "none", at |-> "idle"]

\* id: the :id of the request (NoFile: no valid ObjectId);  pdfFileId: that
\* of the Record found
IdleGet == [pc |-> "idle", id |-> NoFile, pdfFileId |-> NoFile, status |-> 0]

\* status 0: the page was not asked for
NoPage == [status |-> 0]

\* numero and limit: the filter and the page size of the query;  pages: the
\* answer to each page asked for
IdleList ==
  [numero |-> Undefined, limit |-> 0, pages |-> [p \in Pages |-> NoPage]]

\* calls: how many times the function was applied (to the argument, then to
\* its own result)
IdleCall == [fn |-> "none", arg |-> Undefined, out |-> Undefined, calls |-> 0]

\* The server after main() connected at startup, with an empty database.
Init ==
  /\ notas = {}
  /\ pdfsFiles = {}
  /\ pdfsChunks = {}
  /\ req = [r \in Reqs |-> IdleReq]
  /\ del = [d \in Dels |-> IdleDel]
  /\ readyState = 1
  /\ bucket = TRUE
  /\ get = [g \in Gets |-> IdleGet]
  /\ list = IdleList
  /\ call = IdleCall

\* Records earlier ingestions have left: the Record of document (numero 1,
\* chaveNFe A) with its PDF attached, and the Record of document (numero 2,
\* chaveNFe B) whose second save failed, so that its PDF is in the bucket but
\* was never attached.
SeedNotas ==
  { [_id |-> 2 * MaxReq + 1, numero |-> <<"1">>, chaveNFe |-> <<"A">>,
     pdfFileId |-> 2 * MaxReq + 3],
    [_id |-> 2 * MaxReq + 2, numero |-> <<"2">>, chaveNFe |-> <<"B">>,
     pdfFileId |-> NoFile] }

\* with them, the Record of a document (numero 3, chaveNFe C) with its PDF
SeedNotasAll ==
  SeedNotas \cup
    { [_id |-> 2 * MaxReq + 5, numero |-> <<"3">>, chaveNFe |-> <<"C">>,
       pdfFileId |-> 2 * MaxReq + 6] }

SeedIds == {n._id : n \in SeedNotasAll}

\* the file of the ingestion whose second save failed: no Record refers to it
OrphanFile == 2 * MaxReq + 4

\* the files those ingestions uploaded
SeedFiles(ns) ==
  ({n.pdfFileId : n \in ns} \ {NoFile})
    \cup {OrphanFile : n \in {m \in ns : m.pdfFileId = NoFile}}

\* The server after main() connected at startup to a database that holds
\* some of these Records, each with the file its ingestion uploaded.
InitSeeded ==
  /\ notas \in SUBSET SeedNotas
  /\ pdfsFiles = SeedFiles(notas)
  /\ pdfsChunks = SeedFiles(notas)
  /\ req = [r \in Reqs |-> IdleReq]
  /\ del = [d \in Dels |-> IdleDel]
  /\ readyState = 1
  /\ bucket = TRUE
  /\ get = [g \in Gets |-> IdleGet]
  /\ list = IdleList
  /\ call = IdleCall

\* --------------------------------------------------------- store operations
\* FindByNumero with the filter on the wrong path: it matches nothing.
FindByNumeroWrongPath(ns, numero) == {n \in ns : n.chaveNFe = numero}

\* FindByChave with the identifier as the XML carries it, prefix included.
FindByChaveUnstripped(ns, chaveNFe) ==
  {n \in ns : n.chaveNFe = NFePrefix \o chaveNFe}

\* Nota.findOne({ numero }) / Nota.findOne({ chaveNFe }): the matching Records
FindByNumero(ns, numero) == {n \in ns : n.numero = numero}
FindByChave(ns, chaveNFe) == {n \in ns : n.chaveNFe = chaveNFe}
FindById(ns, id) == {n \in ns : n._id = id}

\* DuplicateKey with the unique index on numero alone (the schema before
\* chaveNFe was added).
DuplicateKeyNumeroOnly(ns, numero, chaveNFe) == \E n \in ns : n.numero = numero

\* The unique indexes of NotaSchema (numero, chaveNFe): an insert of a Record
\* with this numero / chaveNFe is refused with E11000.
DuplicateKey(ns, numero, chaveNFe) ==
  \E n \in ns : n.numero = numero \/ n.chaveNFe = chaveNFe

\* CatchStatus without the err.code === 11000 branch.
CatchStatusAlways500(err) == 500

\* The catch block of router.post("/"): the HTTP status of a thrown error.
\* "E11000" is the store's duplicate-key error (err.code === 11000).
CatchStatus(err) == IF err = "E11000" THEN 409 ELSE 500

\* A handler's answer: the request is over.
Answer(r, status, at, fault) ==
  [r EXCEPT !.pc = "done", !.status = status, !.endpc = at, !.fault = fault]

\* The synchronous Record Normalizer (notaData, notas.js:91-126): the error
\* it throws, or "ok".  infNFe.emit.xNome, infNFe.det.prod and
\* infNFe.total.ICMSTot.vNF are read without optional chaining.
Normalize(d) ==
  IF ~d.emit THEN "TypeError"
  ELSE IF d.det = "absent" THEN "TypeError"
  ELSE IF ~d.total THEN "TypeError"
  ELSE "ok"

\* Mongoose validation of the document at the first save: valorTotal is a
\* Number path, and NaN does not cast to it.
Validate(d) == IF d.vNF = "nan" THEN "ValidationError" ELSE "ok"

\* new Nota(notaData): the _id the document takes (notas.js:129)
NewNotaId(r) == r

\* NewFileId with one id for every upload.
NewFileIdShared(r) == MaxReq + 1

\* bucket.openUploadStream(...): the id the upload stream takes (notas.js:137)
NewFileId(r) == MaxReq + r

\* the ids a DELETE /api/notas/:id can name: those the Records of a run take
\* (one of them names no Record as long as its POST has not saved)
NotaIds == {NewNotaId(r) : r \in Reqs}

\* ------------------------------------------------------ POST /api/notas
\* PostCatch with a compensation that removes the Record of the request.
PostCatchRollback(r, err, at, fault) ==
  /\ req' = [req EXCEPT ![r] = Answer(@, CatchStatus(err), at, fault)]
  /\ notas' = {n \in notas : n._id /= req[r].notaId}
  /\ UNCHANGED <<pdfsFiles, pdfsChunks>>

\* PostCatch with a compensation that removes the file the request uploaded.
PostCatchDropFile(r, err, at, fault) ==
  /\ req' = [req EXCEPT ![r] = Answer(@, CatchStatus(err), at, fault)]
  /\ pdfsFiles' = pdfsFiles \ {req[r].fileId}
  /\ pdfsChunks' = pdfsChunks \ {req[r].fileId}
  /\ UNCHANGED notas

\* notas.js:162-174: the catch block logs, maps the error to a status and
\* answers; it touches neither the collection nor the bucket.
PostCatch(r, err, at, fault) ==
  /\ req' = [req EXCEPT ![r] = Answer(@, CatchStatus(err), at, fault)]
  /\ UNCHANGED store

\* PostConflict that reports the Record with the chaveNFe of the request when
\* there is one.
PostConflictByChave(r, found, at) ==
  /\ LET byChave == FindByChave(notas, req[r].chaveNFe)
         shown == IF byChave /= {} THEN byChave ELSE found
     IN req' = [req EXCEPT ![r] =
          [Answer(@, 409, at, "none") EXCEPT !.seen = (CHOOSE n \in shown : TRUE)._id]]
  /\ UNCHANGED store

\* notas.js:65-73, 79-87: the 409 answer of the duplicate pre-check, with the
\* Record that was found.
PostConflict(r, found, at) ==
  /\ req' = [req EXCEPT ![r] =
       [Answer(@, 409, at, "none") EXCEPT !.seen = (CHOOSE n \in found : TRUE)._id]]
  /\ UNCHANGED store

\* notas.js:40-63: the request arrives, the file is parsed, the structure and
\* the two keys are checked, and Nota.findOne({ numero }) is issued.
PostStart(r, d) ==
  /\ req[r].pc = "idle"
  /\ \A q \in Reqs : q < r => req[q].pc /= "idle"
  /\ LET numero == d.nNF
         chaveNFe == extrairChaveNFe(d)
         me == [req[r] EXCEPT !.doc = d]
     IN req' = [req EXCEPT ![r] =
          IF ~d.file THEN Answer(me, 400, "file", "none")
          ELSE IF ~d.xml THEN Answer(me, CatchStatus("ParseError"), "parse", "none")
          ELSE IF ~d.struct THEN Answer(me, 400, "struct", "none")
          ELSE IF ~d.ide THEN Answer(me, CatchStatus("TypeError"), "keys", "none")
          ELSE IF ~Truthy(numero) \/ ~Truthy(chaveNFe)
            THEN Answer(me, 400, "keys", "none")
          ELSE [me EXCEPT !.pc = "findNumero", !.numero = numero,
                          !.chaveNFe = chaveNFe]]
  /\ UNCHANGED <<store, del, server>>

\* notas.js:63-77: Nota.findOne({ numero }) resolves; 409 with the Record
\* found, or Nota.findOne({ chaveNFe }) is issued.
PostFindNumero(r) ==
  /\ req[r].pc = "findNumero"
  /\ LET found == FindByNumero(notas, req[r].numero)
     IN IF found /= {}
          THEN PostConflict(r, found, "findNumero")
          ELSE /\ req' = [req EXCEPT ![r] = [@ EXCEPT !.pc = "findChave"]]
               /\ UNCHANGED store
  /\ UNCHANGED <<del, server>>

\* notas.js:77-130: Nota.findOne({ chaveNFe }) resolves; 409 with the Record
\* found, or notaData is built, new Nota(notaData) takes its _id and
\* nota.save() is issued.
PostFindChave(r) ==
  /\ req[r].pc = "findChave"
  /\ LET found == FindByChave(notas, req[r].chaveNFe)
         err == Normalize(req[r].doc)
     IN IF found /= {} THEN PostConflict(r, found, "findChave")
        ELSE IF err /= "ok" THEN PostCatch(r, err, "normalize", "none")
        ELSE /\ req' = [req EXCEPT ![r] =
                  [@ EXCEPT !.pc = "save", !.notaId = NewNotaId(r)]]
             /\ UNCHANGED store
  /\ UNCHANGED <<del, server>>

\* A store call of the POST handler rejects (connection lost, server error)
\* without having changed anything: the catch block answers.
PostStoreError(r) ==
  /\ req[r].pc \in {"findNumero", "findChave", "save", "attach"}
  /\ PostCatch(r, "StoreError", req[r].pc, "store")
  /\ UNCHANGED <<del, server>>

\* The first nota.save() (notas.js:130): its error, or "ok".  Validation runs
\* before the insert, which the unique indexes refuse with E11000.
SaveError(ns, nota, d) ==
  IF Validate(d) /= "ok" THEN Validate(d)
  ELSE IF DuplicateKey(ns, nota.numero, nota.chaveNFe) THEN "E11000"
  ELSE "ok"

\* SaveResult as an upsert (findOneAndUpdate with upsert: true): the Record
\* takes the place of those with its keys.
SaveResultUpsert(ns, nota, d) ==
  IF Validate(d) /= "ok" THEN ns
  ELSE {n \in ns : n.numero /= nota.numero /\ n.chaveNFe /= nota.chaveNFe}
         \cup {nota}

\* The first nota.save() (notas.js:130): the collection after it.
SaveResult(ns, nota, d) ==
  IF SaveError(ns, nota, d) = "ok" THEN ns \cup {nota} ELSE ns

\* notas.js:129-136: the first nota.save() resolves or rejects; on success
\* getNativeDb, the bucket and gerarPDF(xml) follow.
PostSave(r) ==
  /\ req[r].pc = "save"
  /\ LET nota == [_id |-> req[r].notaId, numero |-> req[r].numero,
                  chaveNFe |-> req[r].chaveNFe, pdfFileId |-> NoFile]
         err == SaveError(notas, nota, req[r].doc)
     IN /\ notas' = SaveResult(notas, nota, req[r].doc)
        /\ req' = [req EXCEPT ![r] =
             IF err = "ok" THEN [@ EXCEPT !.pc = "render"]
             ELSE Answer(@, CatchStatus(err), "save", "none")]
  /\ UNCHANGED <<pdfsFiles, pdfsChunks, del, server>>

\* notas.js:136-144: gerarPDF resolves; bucket.openUploadStream gives the
\* stream its id, the PDF is piped into it and the handler waits for
\* "finish" or "error".
PostRender(r) ==
  /\ req[r].pc = "render"
  /\ req' = [req EXCEPT ![r] = [@ EXCEPT !.pc = "upload", !.fileId = NewFileId(r)]]
  /\ UNCHANGED <<store, del, server>>

\* notas.js:136, 162-173: gerarPDF throws.
PostRenderError(r) ==
  /\ req[r].pc = "render"
  /\ PostCatch(r, "RenderError", "render", "render")
  /\ UNCHANGED <<del, server>>

\* PostUploadFinish that answers 201 as soon as the upload has finished,
\* without the second save.
PostUploadFinishAnswers(r) ==
  /\ req[r].pc = "upload"
  /\ pdfsChunks' = pdfsChunks \cup {req[r].fileId}
  /\ pdfsFiles' = pdfsFiles \cup {req[r].fileId}
  /\ req' = [req EXCEPT ![r] = Answer(@, 201, "attach", "none")]
  /\ UNCHANGED <<notas, del, server>>

\* notas.js:141-148: the upload stream has written the chunks of the PDF to
\* pdfs.chunks and its file document to pdfs.files, and emits "finish";
\* nota.pdfFileId is set in memory and the second nota.save() is issued.
\* (The stream's writes are taken together: no handler reads a file that is
\* still being written.)
PostUploadFinish(r) ==
  /\ req[r].pc = "upload"
  /\ pdfsChunks' = pdfsChunks \cup {req[r].fileId}
  /\ pdfsFiles' = pdfsFiles \cup {req[r].fileId}
  /\ req' = [req EXCEPT ![r] = [@ EXCEPT !.pc = "attach"]]
  /\ UNCHANGED <<notas, del, server>>

\* notas.js:143, 162-173: the upload stream emits "error": no file was
\* written.
PostUploadError(r) ==
  /\ req[r].pc = "upload"
  /\ PostCatch(r, "StreamError", "upload", "stream")
  /\ UNCHANGED <<del, server>>

\* notas.js:136-144: the stream gerarPDF returned emits "error".  pipe() does
\* not pass the error on: it only unpipes the upload stream, which is neither
\* ended nor destroyed, so it emits neither "finish" nor "error", the only
\* events the promise listens to.  Nothing listens to "error" on pdfStream
\* (the event is then an uncaught exception).  The request gets no answer.
PostPdfStreamError(r) ==
  /\ req[r].pc = "upload"
  /\ req' = [req EXCEPT ![r] = [@ EXCEPT !.pc = "pending", !.fault = "pdfStream"]]
  /\ UNCHANGED <<store, del, server>>

\* AttachPdf that writes nothing (pdfFileId set in memory only).
AttachPdfNothing(ns, id, fileId) == ns

\* AttachPdf as an update without the _id filter.
AttachPdfAll(ns, id, fileId) == {[n EXCEPT !.pdfFileId = fileId] : n \in ns}

\* The second nota.save() (notas.js:147-148):
\* updateOne({ _id }, { $set: { pdfFileId } }).
AttachPdf(ns, id, fileId) ==
  {IF n._id = id THEN [n EXCEPT !.pdfFileId = fileId] ELSE n : n \in ns}

\* PostAttach whose save is an upsert: a Record that is gone is written again
\* with the pdfFileId, and 201 is answered.
PostAttachUpsert(r) ==
  /\ req[r].pc = "attach"
  /\ notas' =
       IF FindById(notas, req[r].notaId) = {}
         THEN notas \cup {[_id |-> req[r].notaId, numero |-> req[r].numero,
                            chaveNFe |-> req[r].chaveNFe,
                            pdfFileId |-> req[r].fileId]}
         ELSE AttachPdf(notas, req[r].notaId, req[r].fileId)
  /\ req' = [req EXCEPT ![r] = Answer(@, 201, "attach", "none")]
  /\ UNCHANGED <<pdfsFiles, pdfsChunks, del, server>>

\* notas.js:148-161: the second nota.save() resolves (201) or finds no
\* document with the _id (DocumentNotFoundError, 500).
PostAttach(r) ==
  /\ req[r].pc = "attach"
  /\ IF FindById(notas, req[r].notaId) = {}
       THEN PostCatch(r, "DocumentNotFoundError", "attach", "none")
       ELSE /\ notas' = AttachPdf(notas, req[r].notaId, req[r].fileId)
            /\ req' = [req EXCEPT ![r] = Answer(@, 201, "attach", "none")]
            /\ UNCHANGED <<pdfsFiles, pdfsChunks>>
  /\ UNCHANGED <<del, server>>

\* ------------------------------------------------ DELETE /api/notas/:id
\* BucketDelete that removes nothing.
BucketDeleteNothing(fs, id) == fs

\* One of the two store calls of bucket.delete(id): deleteOne({ _id: id }) on
\* pdfs.files, deleteMany({ files_id: id }) on pdfs.chunks.
BucketDelete(fs, id) == fs \ {id}

\* notas.js:281-285: the id is no ObjectId.
DelInvalidId(d) ==
  /\ del[d].pc \in {"idle", "done"}
  /\ del' = [del EXCEPT ![d] =
       [IdleDel EXCEPT !.pc = "done", !.status = 400, !.at = "valid"]]
  /\ UNCHANGED <<store, req, server>>


\* DelFind as a findById whose removal is left for later: the Record stays.
DelFindKeeps(d, id) ==
  /\ del[d].pc \in {"idle", "done"}
  /\ LET found == FindById(notas, id)
     IN del' = [del EXCEPT ![d] =
          IF found = {}
            THEN [IdleDel EXCEPT !.pc = "done", !.id = id, !.status = 404,
                                 !.at = "find"]
          ELSE IF (CHOOSE n \in found : TRUE).pdfFileId /= NoFile
            THEN [IdleDel EXCEPT !.pc = "bucket", !.id = id,
                    !.pdfFileId = (CHOOSE n \in found : TRUE).pdfFileId]
          ELSE [IdleDel EXCEPT !.pc = "done", !.id = id, !.status = 200,
                               !.at = "find"]]
  /\ UNCHANGED <<store, req, server>>

\* notas.js:287-310: Nota.findByIdAndDelete(id) resolves: 404 when no Record
\* has the id; else the Record is gone, and bucket.delete is issued when it
\* carried a pdfFileId, or 200 is answered when it did not.
DelFind(d, id) ==
  /\ del[d].pc \in {"idle", "done"}
  /\ LET found == FindById(notas, id)
     IN IF found = {}
          THEN /\ del' = [del EXCEPT ![d] =
                    [IdleDel EXCEPT !.pc = "done", !.id = id, !.status = 404,
                                    !.at = "find"]]
               /\ UNCHANGED notas
          ELSE LET nota == CHOOSE n \in found : TRUE
               IN /\ notas' = notas \ found
                  /\ del' = [del EXCEPT ![d] =
                       IF nota.pdfFileId /= NoFile
                         THEN [IdleDel EXCEPT !.pc = "bucket", !.id = id,
                                              !.pdfFileId = nota.pdfFileId]
                         ELSE [IdleDel EXCEPT !.pc = "done", !.id = id,
                                              !.status = 200, !.at = "find"]]
  /\ UNCHANGED <<pdfsFiles, pdfsChunks, req, server>>

\* notas.js:287, 311-314: Nota.findByIdAndDelete rejects.
DelStoreError(d) ==
  /\ del[d].pc \in {"idle", "done"}
  /\ del' = [del EXCEPT ![d] =
       [IdleDel EXCEPT !.pc = "done", !.status = 500, !.fault = "store",
                       !.at = "find"]]
  /\ UNCHANGED <<store, req, server>>

\* notas.js:297-310: bucket.delete removes the file document of pdfs.files
\* and its chunks of pdfs.chunks (it rejects afterwards when there was no file
\* document: the rejection is caught and logged); 200 is answered.
DelBucket(d) ==
  /\ del[d].pc = "bucket"
  /\ pdfsFiles' = BucketDelete(pdfsFiles, del[d].pdfFileId)
  /\ pdfsChunks' = BucketDelete(pdfsChunks, del[d].pdfFileId)
  /\ del' = [del EXCEPT ![d] =
       [@ EXCEPT !.pc = "done", !.status = 200, !.at = "bucket"]]
  /\ UNCHANGED <<notas, req, server>>

\* DelBucketError that passes the error on to the outer catch, which
\* answers 500.
DelBucketErrorPropagates(d) ==
  /\ del[d].pc = "bucket"
  /\ del' = [del EXCEPT ![d] =
       [@ EXCEPT !.pc = "done", !.status = 500, !.fault = "bucket",
                 !.at = "bucket"]]
  /\ UNCHANGED <<store, req, server>>

\* notas.js:296-300: bucket.delete rejects at its first store call (nothing
\* is removed) or at its second (the file document is removed, the chunks
\* stay); the error is logged and 200 is answered.
DelBucketError(d) ==
  /\ del[d].pc = "bucket"
  /\ \/ UNCHANGED pdfsFiles
     \/ pdfsFiles' = BucketDelete(pdfsFiles, del[d].pdfFileId)
  /\ del' = [del EXCEPT ![d] =
       [@ EXCEPT !.pc = "done", !.status = 200, !.fault = "bucket",
                 !.at = "bucket"]]
  /\ UNCHANGED <<notas, pdfsChunks, req, server>>

\* ---------------------------------------------------- DELETE /api/notas
\* BulkNotas as one transaction over the three collections.
BulkNotasTransaction(d) ==
  /\ del[d].pc \in {"idle", "done"}
  /\ notas' = {}
  /\ pdfsFiles' = {}
  /\ pdfsChunks' = {}
  /\ del' = [del EXCEPT ![d] = [IdleDel EXCEPT !.pc = "files", !.route = "all"]]
  /\ UNCHANGED <<req, server>>

\* notas.js:264-266: Nota.deleteMany({}) resolves.
BulkNotas(d) ==
  /\ del[d].pc \in {"idle", "done"}
  /\ notas' = {}
  /\ del' = [del EXCEPT ![d] = [IdleDel EXCEPT !.pc = "files", !.route = "all"]]
  /\ UNCHANGED <<pdfsFiles, pdfsChunks, req, server>>

\* notas.js:266-267: db.collection("pdfs.files").deleteMany({}) resolves.
BulkFiles(d) ==
  /\ del[d].pc = "files"
  /\ pdfsFiles' = {}
  /\ del' = [del EXCEPT ![d] = [@ EXCEPT !.pc = "chunks"]]
  /\ UNCHANGED <<notas, pdfsChunks, req, server>>

\* BulkChunks that leaves pdfs.chunks as it is.
BulkChunksKeeps(d) ==
  /\ del[d].pc = "chunks"
  /\ del' = [del EXCEPT ![d] =
       [@ EXCEPT !.pc = "done", !.status = 200, !.at = "chunks"]]
  /\ UNCHANGED <<store, req, server>>

\* notas.js:267-268: db.collection("pdfs.chunks").deleteMany({}) resolves.
BulkChunks(d) ==
  /\ del[d].pc = "chunks"
  /\ pdfsChunks' = {}
  /\ del' = [del EXCEPT ![d] =
       [@ EXCEPT !.pc = "done", !.status = 200, !.at = "chunks"]]
  /\ UNCHANGED <<notas, pdfsFiles, req, server>>

\* notas.js:269-272: one of the three deleteMany calls rejects.
BulkStoreError(d) ==
  /\ \/ del[d].pc \in {"idle", "done"}
     \/ del[d].pc \in {"files", "chunks"}
  /\ del' = [del EXCEPT ![d] =
       [IdleDel EXCEPT !.pc = "done", !.route = "all", !.status = 500,
                       !.fault = "store",
                       !.at = IF del[d].pc \in {"files", "chunks"}
                                THEN del[d].pc ELSE "notas"]]
  /\ UNCHANGED <<store, req, server>>

\* ------------------------------------------ the connection (server.js)
\* server.js:179-181: the connection is lost; the 'disconnected' handler
\* logs and leaves bucket as it is.
ConnDisconnected ==
  /\ readyState = 1
  /\ readyState' = 0
  /\ UNCHANGED <<store, req, del, bucket, get, list, call>>

\* server.js:183-190: the connection is (re-)established; the 'connected'
\* handler assigns a new GridFSBucket to bucket.
ConnConnected ==
  /\ readyState = 0
  /\ readyState' = 1
  /\ bucket' = TRUE
  /\ UNCHANGED <<store, req, del, get, list, call>>

\* ------------------------------------------- GET /api/notas/:id/pdf
\* server.js:80-94: the request arrives: 503 when bucket is not set, 400 when
\* the id is no ObjectId, else Nota.findById(id) is issued.
GetStart(g, id) ==
  /\ get[g].pc \in {"idle", "done"}
  /\ get' = [get EXCEPT ![g] =
       IF ~bucket THEN [IdleGet EXCEPT !.pc = "done", !.id = id, !.status = 503]
       ELSE IF id = NoFile THEN [IdleGet EXCEPT !.pc = "done", !.status = 400]
       ELSE [IdleGet EXCEPT !.pc = "find", !.id = id]]
  /\ UNCHANGED <<store, req, del, readyState, bucket, list, call>>

\* server.js:94-120: Nota.findById(id) resolves (Mongoose holds the query
\* back while the connection is down): 404 when there is no Record or it has
\* no pdfFileId, else the headers are set and the download stream is opened.
GetFind(g) ==
  /\ get[g].pc = "find"
  /\ readyState = 1
  /\ LET found == FindById(notas, get[g].id)
         fileId == IF found = {} THEN NoFile
                   ELSE (CHOOSE n \in found : TRUE).pdfFileId
     IN get' = [get EXCEPT ![g] =
          IF fileId = NoFile THEN [@ EXCEPT !.pc = "done", !.status = 404]
          ELSE [@ EXCEPT !.pc = "stream", !.pdfFileId = fileId]]
  /\ UNCHANGED <<store, req, del, readyState, bucket, list, call>>

\* server.js:94, 124-129: Nota.findById(id) rejects (server error, or the
\* query was held back longer than Mongoose's buffer timeout): 500.
GetFindError(g) ==
  /\ get[g].pc = "find"
  /\ get' = [get EXCEPT ![g] = [@ EXCEPT !.pc = "done", !.status = 500]]
  /\ UNCHANGED <<store, req, del, readyState, bucket, list, call>>

\* server.js:110-123: the download stream is piped into the response (200),
\* or emits "error" before any byte was sent (no such file, connection
\* lost): 500.
GetStream(g) ==
  /\ get[g].pc = "stream"
  /\ get' = [get EXCEPT ![g] =
       [@ EXCEPT !.pc = "done",
                 !.status = IF readyState = 1 /\ get[g].pdfFileId \in pdfsFiles
                              THEN 200 ELSE 500]]
  /\ UNCHANGED <<store, req, del, readyState, bucket, list, call>>

\* ------------------------------------------------------------ specification
Next ==
  \/ \E r \in Reqs, d \in Docs : PostStart(r, d)
  \/ \E r \in Reqs : PostFindNumero(r)
  \/ \E r \in Reqs : PostFindChave(r)
  \/ \E r \in Reqs : PostStoreError(r)
  \/ \E r \in Reqs : PostSave(r)
  \/ \E r \in Reqs : PostRender(r)
  \/ \E r \in Reqs : PostRenderError(r)
  \/ \E r \in Reqs : PostUploadFinish(r)
  \/ \E r \in Reqs : PostUploadError(r)
  \/ \E r \in Reqs : PostPdfStreamError(r)
  \/ \E r \in Reqs : PostAttach(r)
  \/ \E d \in Dels : DelInvalidId(d)
  \/ \E d \in Dels, id \in NotaIds : DelFind(d, id)
  \/ \E d \in Dels : DelStoreError(d)
  \/ \E d \in Dels : DelBucket(d)
  \/ \E d \in Dels : DelBucketError(d)
  \/ \E d \in Dels : BulkNotas(d)
  \/ \E d \in Dels : BulkFiles(d)
  \/ \E d \in Dels : BulkChunks(d)
  \/ \E d \in Dels : BulkStoreError(d)

Spec == Init /\ [][Next]_vars


\* The POST handlers alone: no DELETE request is received.
NextPost ==
  \/ \E r \in Reqs, d \in Docs : PostStart(r, d)
  \/ \E r \in Reqs : PostFindNumero(r)
  \/ \E r \in Reqs : PostFindChave(r)
  \/ \E r \in Reqs : PostStoreError(r)
  \/ \E r \in Reqs : PostSave(r)
  \/ \E r \in Reqs : PostRender(r)
  \/ \E r \in Reqs : PostRenderError(r)
  \/ \E r \in Reqs : PostUploadFinish(r)
  \/ \E r \in Reqs : PostUploadError(r)
  \/ \E r \in Reqs : PostPdfStreamError(r)
  \/ \E r \in Reqs : PostAttach(r)

SpecPost == Init /\ [][NextPost]_vars

\* The DELETE handlers alone, on a database that holds Records already; the
\* ids asked for are those of its Records and ids that name no Record.
NextDelete ==
  \/ \E d \in Dels : DelInvalidId(d)
  \/ \E d \in Dels, id \in SeedIds \cup NotaIds : DelFind(d, id)
  \/ \E d \in Dels : DelStoreError(d)
  \/ \E d \in Dels : DelBucket(d)
  \/ \E d \in Dels : DelBucketError(d)
  \/ \E d \in Dels : BulkNotas(d)
  \/ \E d \in Dels : BulkFiles(d)
  \/ \E d \in Dels : BulkChunks(d)
  \/ \E d \in Dels : BulkStoreError(d)

\* The server after main() connected at startup to a database that holds
\* all of these Records, each with the file its ingestion uploaded.
InitSeededAll ==
  /\ notas = SeedNotasAll
  /\ pdfsFiles = SeedFiles(notas)
  /\ pdfsChunks = SeedFiles(notas)
  /\ req = [r \in Reqs |-> IdleReq]
  /\ del = [d \in Dels |-> IdleDel]
  /\ readyState = 1
  /\ bucket = TRUE
  /\ get = [g \in Gets |-> IdleGet]
  /\ list = IdleList
  /\ call = IdleCall

SpecDelete == InitSeededAll /\ [][NextDelete]_vars

\* A step of the POST handler r after its arrival: an awaited call settles.
PostStep(r) ==
  \/ PostFindNumero(r)
  \/ PostFindChave(r)
  \/ PostStoreError(r)
  \/ PostSave(r)
  \/ PostRender(r)
  \/ PostRenderError(r)
  \/ PostUploadFinish(r)
  \/ PostUploadError(r)
  \/ PostPdfStreamError(r)
  \/ PostAttach(r)

\* The POST handlers alone, where every call a handler awaits settles: each
\* store call resolves or rejects, gerarPDF resolves or throws, and the
\* streams signal completion or an error.
SpecPostFair == SpecPost /\ \A r \in Reqs : WF_vars(PostStep(r))

\* main() of server.js has run on a database that holds Records: with
\* mongoose.connect resolved, readyState is 1 and bucket is set; with
\* mongoose.connect rejected, readyState is 0 and bucket is undefined
\* (server.js:60-77).
InitPdf ==
  /\ notas = SeedNotasAll
  /\ pdfsFiles = SeedFiles(notas)
  /\ pdfsChunks = SeedFiles(notas)
  /\ req = [r \in Reqs |-> IdleReq]
  /\ del = [d \in Dels |-> IdleDel]
  /\ readyState \in {0, 1}
  /\ bucket = (readyState = 1)
  /\ get = [g \in Gets |-> IdleGet]
  /\ list = IdleList
  /\ call = IdleCall

\* The PDF route and the connection events; the ids asked for are those of
\* the Records, ids that name no Record, and a string that is no ObjectId.
NextPdf ==
  \/ ConnDisconnected
  \/ ConnConnected
  \/ \E g \in Gets, id \in SeedIds \cup NotaIds \cup {NoFile} : GetStart(g, id)
  \/ \E g \in Gets : GetFind(g)
  \/ \E g \in Gets : GetFindError(g)
  \/ \E g \in Gets : GetStream(g)

SpecPdf == InitPdf /\ [][NextPdf]_vars

\* The POST handlers alone, on a database that holds Records already.
SpecSeeded == InitSeeded /\ [][NextPost]_vars

\* ------------------------------------------------------- GET /api/notas
\* The Records of a collection that is listed: Record i with its criadoEm
\* (Date.now at new Nota, in milliseconds: two Records can have the same).
Digits == <<"1", "2", "3", "4", "5", "6", "7", "8", "9">>

ListedNota(i, t) ==
  [_id |-> 2 * MaxReq + 6 + i, numero |-> <<Digits[i]>>,
   chaveNFe |-> <<"K", Digits[i]>>, pdfFileId |-> NoFile, criadoEm |-> t]

ListedStores ==
  UNION { { {ListedNota(i, f[i]) : i \in 1..n} : f \in [1..n -> 1..MaxTime] }
          : n \in 0..MaxNotas }

\* The server after main() connected at startup to a database that holds
\* such Records.
InitList ==
  /\ notas \in ListedStores
  /\ pdfsFiles = {}
  /\ pdfsChunks = {}
  /\ req = [r \in Reqs |-> IdleReq]
  /\ del = [d \in Dels |-> IdleDel]
  /\ readyState = 1
  /\ bucket = TRUE
  /\ get = [g \in Gets |-> IdleGet]
  /\ list = IdleList
  /\ call = IdleCall

\* req.query of GET /api/notas: page and limit (a positive integer, or
\* Absent) and numero (absent, or a number); busca, valorMin and valorMax are
\* absent.
Absent == 0

Queries ==
  [page : Pages \cup {Absent}, limit : (1..MaxLimit) \cup {Absent},
   numero : {Undefined, <<"1">>}]

\* const { ..., page = 1, limit = 10 } = req.query with parseInt (notas.js:184)
PageOf(q) == IF q.page = Absent THEN 1 ELSE q.page
LimitOf(q) == IF q.limit = Absent THEN 10 ELSE q.limit

\* The Records the filter matches (notas.js:185-190)
Matching(ns, numero) ==
  IF Truthy(numero) THEN {n \in ns : n.numero = numero} ELSE ns

\* .sort({ criadoEm: -1 }): the orders the store can return the Records in.
\* The sort key is criadoEm alone, so Records with the same criadoEm come in
\* an order that the store chooses at each query.
SortOrders(ns) ==
  {s \in [1..Cardinality(ns) -> ns] :
     /\ \A i, j \in 1..Cardinality(ns) : i /= j => s[i] /= s[j]
     /\ \A i, j \in 1..Cardinality(ns) :
          i < j => s[i].criadoEm >= s[j].criadoEm}

\* .skip(skip).limit(limit) (notas.js:214-215)
SkipLimit(order, skip, limit) ==
  IF skip >= Len(order) THEN <<>>
  ELSE SubSeq(order, skip + 1,
              IF skip + limit < Len(order) THEN skip + limit ELSE Len(order))

\* Math.ceil(total / limit) (notas.js:223), limit positive
TotalPages(total, limit) == (total + limit - 1) \div limit

\* The answers recorded for the query (numero, limit) after page was
\* answered: a request with another filter or page size starts a new record.
Listed(q, answer) ==
  LET pages == IF list.numero = q.numero /\ list.limit = LimitOf(q)
                 THEN list.pages ELSE IdleList.pages
  IN [numero |-> q.numero, limit |-> LimitOf(q),
      pages |-> [pages EXCEPT ![PageOf(q)] = answer]]

\* notas.js:182-227: the request arrives, Nota.find(...).sort.skip.limit and
\* Nota.countDocuments resolve, and the page is answered.
ListGet(q) ==
  /\ LET limit == LimitOf(q)
         skip == (PageOf(q) - 1) * limit
         matching == Matching(notas, q.numero)
         total == Cardinality(matching)
     IN \E order \in SortOrders(matching) :
          LET found == SkipLimit(order, skip, limit)
          IN list' = Listed(q,
               [status |-> 200,
                notas |-> [i \in 1..Len(found) |-> found[i]._id],
                pagination |->
                  [currentPage |-> PageOf(q),
                   totalPages |-> TotalPages(total, limit),
                   totalItems |-> total,
                   itemsPerPage |-> limit]])
  /\ UNCHANGED <<store, req, del, readyState, bucket, get, call>>

\* notas.js:228-231: one of the two queries rejects: 500.
ListStoreError(q) ==
  /\ list' = Listed(q, [status |-> 500])
  /\ list' /= list
  /\ UNCHANGED <<store, req, del, readyState, bucket, get, call>>

\* The listing alone, on a collection that no request changes.
NextList ==
  \/ \E q \in Queries : ListGet(q)
  \/ \E q \in Queries : ListStoreError(q)

SpecList == InitList /\ [][NextList]_vars

\* ------------------------------------------------- extrairChaveNFe alone
\* The identifiers: the strings of at most MaxIdLen characters over the
\* letters of the prefix and a digit.
IdChars == {"N", "F", "e", "1"}

Ids == UNION { [1..n -> IdChars] : n \in 0..MaxIdLen }

\* infNFe as extrairChaveNFe reads it: the identifier in infNFe.$.Id, or,
\* without attributes, in infNFe.id; either can be absent.
InfNFeId(attrs, id) ==
  [attrs |-> attrs, attrId |-> IF attrs THEN id ELSE Undefined,
   id |-> IF attrs THEN Undefined ELSE id]

InfNFes == {InfNFeId(a, id) : a \in BOOLEAN, id \in Ids \cup {Undefined}}

\* An infNFe element is at hand; the function was not called yet.
InitChave ==
  /\ notas = {}
  /\ pdfsFiles = {}
  /\ pdfsChunks = {}
  /\ req = [r \in Reqs |-> IdleReq]
  /\ del = [d \in Dels |-> IdleDel]
  /\ readyState = 1
  /\ bucket = TRUE
  /\ get = [g \in Gets |-> IdleGet]
  /\ list = IdleList
  /\ call \in {[IdleCall EXCEPT !.arg = a] : a \in InfNFes}

\* notas.js:56: extrairChaveNFe(infNFe) is called on the element.
CallExtrair ==
  /\ call.fn = "none"
  /\ call' = [call EXCEPT !.fn = "extrairChaveNFe", !.calls = 1,
                          !.out = extrairChaveNFe(call.arg)]
  /\ UNCHANGED <<store, req, del, readyState, bucket, get, list>>

\* extrairChaveNFe is called on an element whose identifier is the result of
\* the call before (a stored key that is submitted again as an identifier).
CallExtrairAgain ==
  /\ call.fn = "extrairChaveNFe" /\ call.calls = 1
  /\ LET again == InfNFeId(call.arg.attrs, call.out)
     IN call' = [call EXCEPT !.arg = again, !.calls = 2,
                             !.out = extrairChaveNFe(again)]
  /\ UNCHANGED <<store, req, del, readyState, bucket, get, list>>

NextChave == CallExtrair \/ CallExtrairAgain

SpecChave == InitChave /\ [][NextChave]_vars

\* ------------------------------------------------- notaData.produtos alone
\* The prod sub-object of a line item; NoProd: the item has no prod element.
Prods == {"p1", "p2", "p3"}
NoProd == "undefined"

\* A det element as xml2js (explicitArray: false) yields it.
Items == [prod : Prods \cup {NoProd}]
NoItem == [prod |-> NoProd]

\* infNFe.det: an array of items (several det elements), one item object (a
\* single det element), or absent.
Dets ==
  {[kind |-> "array", items |-> s, item |-> NoItem] :
     s \in UNION {[1..n -> Items] : n \in 0..MaxDet}}
  \cup {[kind |-> "single", items |-> <<>>, item |-> it] : it \in Items}
  \cup {[kind |-> "absent", items |-> <<>>, item |-> NoItem]}

\* Produtos that takes the product of the first item of an array only.
ProdutosFirstOnly(det) ==
  IF det.kind = "absent" THEN [error |-> "TypeError", produtos |-> <<>>]
  ELSE IF det.kind = "array"
    THEN [error |-> "none",
          produtos |-> IF det.items = <<>> THEN <<>> ELSE <<det.items[1].prod>>]
  ELSE [error |-> "none", produtos |-> <<det.item.prod>>]

\* notas.js:121-123: Array.isArray(infNFe.det) ? infNFe.det.map(d => d.prod)
\* : [infNFe.det.prod]; reading .prod of an absent det throws.
Produtos(det) ==
  IF det.kind = "absent" THEN [error |-> "TypeError", produtos |-> <<>>]
  ELSE IF det.kind = "array"
    THEN [error |-> "none",
          produtos |-> [i \in 1..Len(det.items) |-> det.items[i].prod]]
  ELSE [error |-> "none", produtos |-> <<det.item.prod>>]

\* A parsed document's det is at hand; notaData was not built yet.
InitProdutos ==
  /\ notas = {}
  /\ pdfsFiles = {}
  /\ pdfsChunks = {}
  /\ req = [r \in Reqs |-> IdleReq]
  /\ del = [d \in Dels |-> IdleDel]
  /\ readyState = 1
  /\ bucket = TRUE
  /\ get = [g \in Gets |-> IdleGet]
  /\ list = IdleList
  /\ call \in {[IdleCall EXCEPT !.arg = det] : det \in Dets}

\* notas.js:121-123: the produtos field of notaData is computed.
CallProdutos ==
  /\ call.fn = "none"
  /\ call' = [call EXCEPT !.fn = "produtos", !.calls = 1,
                          !.out = Produtos(call.arg)]
  /\ UNCHANGED <<store, req, del, readyState, bucket, get, list>>

NextProdutos == CallProdutos

SpecProdutos == InitProdutos /\ [][NextProdutos]_vars

\* ------------------------------- DELETE /api/notas/:id, several in flight
\* DELETE /api/notas/:id handlers in flight together: one more than Dels, so
\* that two requests for one id interleave.
DelPair == 1..(MaxDel + 1)

InitDeletePair ==
  /\ notas = SeedNotasAll
  /\ pdfsFiles = SeedFiles(notas)
  /\ pdfsChunks = SeedFiles(notas)
  /\ req = [r \in Reqs |-> IdleReq]
  /\ del = [d \in DelPair |-> IdleDel]
  /\ readyState = 1
  /\ bucket = TRUE
  /\ get = [g \in Gets |-> IdleGet]
  /\ list = IdleList
  /\ call = IdleCall

NextDeletePair ==
  \/ \E d \in DelPair : DelInvalidId(d)
  \/ \E d \in DelPair, id \in SeedIds \cup NotaIds : DelFind(d, id)
  \/ \E d \in DelPair : DelStoreError(d)
  \/ \E d \in DelPair : DelBucket(d)
  \/ \E d \in DelPair : DelBucketError(d)

SpecDeletePair == InitDeletePair /\ [][NextDeletePair]_vars

\* ------------------------- runs without the three sources of orphan blobs
\* The ingestion r is between its insert and its attach.
InWindow(r) == req[r].pc \in {"render", "upload", "attach", "pending"}

\* The deletion d has removed Records and has blobs left to delete.
DelBusy(d) == del[d].pc \in {"bucket", "files", "chunks"}

\* The runs in which the second save never rejects, no blob deletion rejects
\* (bucket.delete, or deleteMany on pdfs.files / pdfs.chunks), and no deletion
\* is under way while an ingestion is between its insert and its attach: a
\* deletion begins only when no ingestion is there, and an insert succeeds
\* only when no deletion is under way.
NextClean ==
  \/ \E r \in Reqs, d \in Docs : PostStart(r, d)
  \/ \E r \in Reqs : PostFindNumero(r)
  \/ \E r \in Reqs : PostFindChave(r)
  \/ \E r \in Reqs : req[r].pc /= "attach" /\ PostStoreError(r)
  \/ \E r \in Reqs :
       /\ PostSave(r)
       /\ InWindow(r)' => \A d \in Dels : ~DelBusy(d)
  \/ \E r \in Reqs : PostRender(r)
  \/ \E r \in Reqs : PostRenderError(r)
  \/ \E r \in Reqs : PostUploadFinish(r)
  \/ \E r \in Reqs : PostUploadError(r)
  \/ \E r \in Reqs : PostPdfStreamError(r)
  \/ \E r \in Reqs : PostAttach(r)
  \/ \E d \in Dels : DelInvalidId(d)
  \/ \E d \in Dels, id \in NotaIds :
       (\A r \in Reqs : ~InWindow(r)) /\ DelFind(d, id)
  \/ \E d \in Dels : DelStoreError(d)
  \/ \E d \in Dels : DelBucket(d)
  \/ \E d \in Dels : (\A r \in Reqs : ~InWindow(r)) /\ BulkNotas(d)
  \/ \E d \in Dels : BulkFiles(d)
  \/ \E d \in Dels : BulkChunks(d)
  \/ \E d \in Dels : del[d].pc \in {"idle", "done"} /\ BulkStoreError(d)

SpecClean == Init /\ [][NextClean]_vars

\* ------------------------------------------------------------------ claims
\* The POST handler r has inserted its Record (its first save resolved).
Inserted(r) ==
  \/ req[r].pc \in {"render", "upload", "attach", "pending"}
  \/ req[r].pc = "done" /\ req[r].endpc \in {"render", "upload", "attach"}

\* The POST handler r got past the duplicate pre-check and called save.
PassedPreCheck(r) == req[r].notaId /= NoFile

\* No DELETE request has been received so far.
NoDeleteYet == \A d \in Dels : del[d].pc = "idle"

\* The documents of the POSTs p and q have the same numero or chaveNFe.
SameKey(p, q) ==
  \/ req[p].numero = req[q].numero
  \/ req[p].chaveNFe = req[q].chaveNFe

\* C1: in every reachable state no two Records of the collection have the same
\* numero, and no two have the same chaveNFe.
C1_UniqueKeys ==
  \A a \in notas, b \in notas :
    a /= b => a.numero /= b.numero /\ a.chaveNFe /= b.chaveNFe

\* C1 witness: a Record is persisted and a POST with its chaveNFe and another
\* numero, which had passed the pre-check, was refused by the unique index.
C1_Witness ==
  \E r \in Reqs :
    /\ req[r].pc = "done" /\ req[r].endpc = "save" /\ req[r].status = 409
    /\ \E n \in notas : n.chaveNFe = req[r].chaveNFe /\ n.numero /= req[r].numero

\* The save step of a valid POST, no store fault: refused with 409 and no
\* write when a Record with one of its keys is persisted, an insert otherwise.
C2_SaveStep ==
  \A r \in Reqs :
    (/\ req[r].pc = "save" /\ req'[r].pc /= "save"
     /\ req'[r].fault /= "store"
     /\ req[r].doc \in ValidDocs)
    => IF \E n \in notas : n.numero = req[r].numero \/ n.chaveNFe = req[r].chaveNFe
         THEN /\ req'[r].pc = "done" /\ req'[r].status = 409
              /\ req'[r].fileId = NoFile
              /\ store' = store
         ELSE /\ req'[r].pc = "render"
              /\ \E n \in notas' : n._id = req[r].notaId /\ n.pdfFileId = NoFile
              /\ UNCHANGED <<pdfsFiles, pdfsChunks>>

\* Two valid POSTs with a common key that both passed the pre-check and are
\* over (no DELETE, no store fault at the save, no third insert): exactly one
\* inserted, the other got 409 at its save and has no file.
C2_RaceOutcome ==
  \A p \in Reqs, q \in Reqs :
    (/\ p /= q /\ NoDeleteYet
     /\ req[p].pc = "done" /\ req[q].pc = "done"
     /\ PassedPreCheck(p) /\ PassedPreCheck(q) /\ SameKey(p, q)
     /\ req[p].doc \in ValidDocs /\ req[q].doc \in ValidDocs
     /\ ~(req[p].endpc = "save" /\ req[p].fault = "store")
     /\ ~(req[q].endpc = "save" /\ req[q].fault = "store")
     /\ \A o \in Reqs \ {p, q} : ~Inserted(o))
    => \/ /\ Inserted(p) /\ ~Inserted(q)
          /\ req[q].status = 409 /\ req[q].endpc = "save" /\ req[q].fileId = NoFile
          /\ NewFileId(q) \notin pdfsFiles
       \/ /\ Inserted(q) /\ ~Inserted(p)
          /\ req[p].status = 409 /\ req[p].endpc = "save" /\ req[p].fileId = NoFile
          /\ NewFileId(p) \notin pdfsFiles

\* C2: a POST whose save meets a Record with its numero or its chaveNFe (it
\* passed the pre-check, another insert came first) is answered 409, not 500,
\* and writes neither Record nor file; of two POSTs with a common key that
\* both passed the pre-check, exactly one inserts.
C2_RaceAtInsert == [][C2_SaveStep]_vars /\ []C2_RaceOutcome

\* C2 witness: two POSTs with a common key both passed the pre-check; one
\* inserted and was answered 201, the other was answered 409 at its save.
C2_Witness ==
  \E p \in Reqs, q \in Reqs :
    /\ p /= q /\ SameKey(p, q)
    /\ PassedPreCheck(p) /\ PassedPreCheck(q)
    /\ req[p].pc = "done" /\ req[p].status = 201
    /\ req[q].pc = "done" /\ req[q].status = 409 /\ req[q].endpc = "save"

\* With no DELETE received: a valid POST that meets no fault and has the
\* chaveNFe of a POST answered 201 is answered 409; and a valid POST that
\* meets no fault is answered 201 unless another POST inserted a Record with
\* one of its keys.
C3_Outcome ==
  /\ \A p \in Reqs, q \in Reqs :
       (/\ p /= q /\ NoDeleteYet
        /\ req[p].pc = "done" /\ req[p].status = 201
        /\ req[q].pc = "done" /\ req[q].fault = "none"
        /\ req[q].doc \in ValidDocs
        /\ req[q].chaveNFe = req[p].chaveNFe)
       => req[q].status = 409
  /\ \A p \in Reqs :
       (/\ NoDeleteYet /\ req[p].pc = "done" /\ req[p].fault = "none"
        /\ req[p].doc \in ValidDocs)
       => \/ req[p].status = 201
          \/ /\ req[p].status = 409
             /\ \E o \in Reqs \ {p} : Inserted(o) /\ SameKey(p, o)

\* The chaveNFe lookup of a POST, run while a Record with that chaveNFe is
\* persisted: 409 from the pre-check, with that Record, and no write.
C3_ChaveStep ==
  \A q \in Reqs :
    (/\ req[q].pc = "findChave" /\ req'[q].pc /= "findChave"
     /\ req'[q].fault /= "store"
     /\ \E n \in notas : n.chaveNFe = req[q].chaveNFe)
    => /\ req'[q].pc = "done" /\ req'[q].status = 409
       /\ req'[q].endpc = "findChave"
       /\ \E n \in notas : n._id = req'[q].seen /\ n.chaveNFe = req[q].chaveNFe
       /\ store' = store

\* C3: of two valid documents with the same chaveNFe posted one after the
\* other with no deletion in between, the first is answered 201 and the
\* second 409, whatever the numero of the second.
C3_SameKeyTwice == []C3_Outcome /\ [][C3_ChaveStep]_vars

\* C3 witness: a POST was answered 201 and a POST with the same chaveNFe and
\* another numero was answered 409 by the chaveNFe lookup, which found the
\* Record of the first.
C3_Witness ==
  \E p \in Reqs, q \in Reqs :
    /\ p /= q /\ NoDeleteYet
    /\ req[p].pc = "done" /\ req[p].status = 201
    /\ req[q].pc = "done" /\ req[q].status = 409 /\ req[q].endpc = "findChave"
    /\ req[q].seen = req[p].notaId
    /\ req[q].chaveNFe = req[p].chaveNFe /\ req[q].numero /= req[p].numero

\* With no DELETE received: a valid POST that meets no fault and has the
\* numero of a POST answered 201 is answered 409.
C4_Outcome ==
  \A p \in Reqs, q \in Reqs :
    (/\ p /= q /\ NoDeleteYet
     /\ req[p].pc = "done" /\ req[p].status = 201
     /\ req[q].pc = "done" /\ req[q].fault = "none"
     /\ req[q].doc \in ValidDocs
     /\ req[q].numero = req[p].numero)
    => req[q].status = 409

\* The numero lookup of a POST, run while a Record with that numero is
\* persisted: 409 from the pre-check, with that Record, and no write.
C4_NumeroStep ==
  \A q \in Reqs :
    (/\ req[q].pc = "findNumero" /\ req'[q].pc /= "findNumero"
     /\ req'[q].fault /= "store"
     /\ \E n \in notas : n.numero = req[q].numero)
    => /\ req'[q].pc = "done" /\ req'[q].status = 409
       /\ req'[q].endpc = "findNumero"
       /\ \E n \in notas : n._id = req'[q].seen /\ n.numero = req[q].numero
       /\ store' = store

\* C4: of two valid documents with the same numero posted one after the
\* other with no deletion in between, the second is answered 409 even when
\* its chaveNFe differs from that of the first.
C4_SameNumeroTwice == []C4_Outcome /\ [][C4_NumeroStep]_vars

\* C4 witness: a POST was answered 201 and a POST with the same numero and
\* another chaveNFe was answered 409 by the numero lookup, which found the
\* Record of the first.
C4_Witness ==
  \E p \in Reqs, q \in Reqs :
    /\ p /= q /\ NoDeleteYet
    /\ req[p].pc = "done" /\ req[p].status = 201
    /\ req[q].pc = "done" /\ req[q].status = 409 /\ req[q].endpc = "findNumero"
    /\ req[q].seen = req[p].notaId
    /\ req[q].numero = req[p].numero /\ req[q].chaveNFe /= req[p].chaveNFe

\* The points at which a POST ends before its Record is inserted.
PrePersist ==
  {"file", "parse", "struct", "keys", "findNumero", "findChave", "normalize", "save"}

\* A step by which a POST ends before its Record is inserted changes neither
\* the collection nor the bucket.
C5_Step ==
  \A r \in Reqs :
    (/\ req[r].pc \in {"idle", "findNumero", "findChave", "save"}
     /\ req'[r].pc = "done")
    => store' = store

\* A POST that ended before its Record was inserted has no Record and no file.
C5_Nothing ==
  \A r \in Reqs :
    (req[r].pc = "done" /\ req[r].endpc \in PrePersist)
    => /\ req[r].status \in {400, 409, 500}
       /\ req[r].fileId = NoFile
       /\ NewFileId(r) \notin pdfsFiles \cup pdfsChunks
       /\ \A n \in notas : n._id /= NewNotaId(r)

\* C5: a POST that fails before its Record is inserted (no file, malformed
\* document, missing key, duplicate found by the pre-check, a total that is
\* not a number, any other failure up to and including the first save)
\* leaves the collection and the bucket as they were: it inserts or changes
\* no Record and creates no file.
C5_FailureWritesNothing == [][C5_Step]_vars /\ []C5_Nothing

\* C5 witness: with a Record and its file persisted, a POST has ended at the
\* pre-check with 409.
C5_Witness ==
  \E r \in Reqs :
    /\ req[r].pc = "done" /\ req[r].endpc \in {"findNumero", "findChave"}
    /\ req[r].status = 409
    /\ \E n \in notas : n.pdfFileId \in pdfsFiles

\* A POST whose total is not a number has ended at its save with 500.
C5_WitnessInvalidAmount ==
  \E r \in Reqs :
    /\ req[r].pc = "done" /\ req[r].endpc = "save" /\ req[r].doc.vNF = "nan"
    /\ req[r].status = 500

\* The step at which gerarPDF throws or the upload stream emits "error":
\* 500, and neither the collection nor the bucket changes.
C6_Step ==
  \A r \in Reqs :
    (req[r].pc \in {"render", "upload"} /\ req'[r].pc = "done")
    => /\ req'[r].status = 500
       /\ req'[r].fault \in {"render", "stream"}
       /\ store' = store

\* After such a failure the Record has no pdfFileId, and is still persisted
\* as long as no DELETE was received; the POST has no file in the bucket.
C6_Kept ==
  \A r \in Reqs :
    (req[r].pc = "done" /\ req[r].endpc \in {"render", "upload"})
    => /\ req[r].status = 500
       /\ \A n \in notas : n._id = req[r].notaId => n.pdfFileId = NoFile
       /\ NoDeleteYet => \E n \in notas : n._id = req[r].notaId
       /\ req[r].fileId \notin pdfsFiles

\* C6: when gerarPDF throws or the upload stream emits "error" after the
\* Record was inserted, the POST fails and the Record is not rolled back: it
\* stays in the collection without pdfFileId.
C6_RenderFailureKeepsRecord == [][C6_Step]_vars /\ []C6_Kept

\* C6 witness: a POST ended with 500 because gerarPDF threw or its upload
\* stream failed, and its Record is persisted without pdfFileId.
C6_Witness ==
  \E r \in Reqs :
    /\ req[r].pc = "done" /\ req[r].status = 500
    /\ req[r].fault \in {"render", "stream"}
    /\ \E n \in notas : n._id = req[r].notaId /\ n.pdfFileId = NoFile

\* The step at which the second save rejects: 500, and neither the
\* collection nor the bucket changes.
C7_Step ==
  \A r \in Reqs :
    (req[r].pc = "attach" /\ req'[r].pc = "done" /\ req'[r].fault = "store")
    => /\ req'[r].status = 500
       /\ store' = store

\* After such a failure the Record has no pdfFileId and no Record refers to
\* the uploaded file; as long as no DELETE was received both are stored.
C7_Orphan ==
  \A r \in Reqs :
    (req[r].pc = "done" /\ req[r].endpc = "attach" /\ req[r].fault = "store")
    => /\ req[r].status = 500
       /\ \A n \in notas : n._id = req[r].notaId => n.pdfFileId = NoFile
       /\ \A n \in notas : n.pdfFileId /= req[r].fileId
       /\ NoDeleteYet =>
            /\ \E n \in notas : n._id = req[r].notaId
            /\ req[r].fileId \in pdfsFiles

\* C7: when the second save (the one that sets pdfFileId) fails after the
\* upload finished, the POST fails, the Record stays persisted without
\* pdfFileId and the uploaded file stays in the bucket, referred to by no
\* Record; nothing is rolled back.
C7_AttachFailureLeavesOrphan == [][C7_Step]_vars /\ []C7_Orphan

\* C7 witness: a POST ended with 500 at its second save; its Record is
\* persisted without pdfFileId and its file is in the bucket, unreferenced.
C7_Witness ==
  \E r \in Reqs :
    /\ req[r].pc = "done" /\ req[r].endpc = "attach" /\ req[r].fault = "store"
    /\ \E n \in notas : n._id = req[r].notaId /\ n.pdfFileId = NoFile
    /\ req[r].fileId \in pdfsFiles
    /\ \A n \in notas : n.pdfFileId /= req[r].fileId

\* Every Record with a pdfFileId refers to a file of the bucket.
C8_RefsExist ==
  \A n \in notas : n.pdfFileId /= NoFile => n.pdfFileId \in pdfsFiles

\* A file a Record refers to leaves the bucket only if the Record is gone.
C8_RemovedWithOwner ==
  \A n \in notas :
    (n.pdfFileId /= NoFile /\ n.pdfFileId \in pdfsFiles /\ n.pdfFileId \notin pdfsFiles')
    => n \notin notas'

\* C8: in every reachable state, under any interleaving of POSTs and single
\* and bulk DELETEs, every Record with a pdfFileId refers to a file that is
\* in the bucket, and a file a Record refers to is removed only by the
\* deletion of that Record.
C8_BlobRefsValid == []C8_RefsExist /\ [][C8_RemovedWithOwner]_vars

\* C9: in every reachable state no two Records have the same pdfFileId.
C9_NoSharedBlob ==
  \A a \in notas, b \in notas :
    (a /= b /\ a.pdfFileId /= NoFile) => a.pdfFileId /= b.pdfFileId

\* C9 witness: two Records are persisted, each with its pdfFileId.
C9_Witness ==
  \E a \in notas, b \in notas :
    a /= b /\ a.pdfFileId /= NoFile /\ b.pdfFileId /= NoFile

\* A Record has a pdfFileId only once the POST that inserted it has been
\* answered 201 (after its upload finished), and it is the id of that upload.
C10_AbsentUntilAttached ==
  \A n \in notas :
    n.pdfFileId /= NoFile =>
      \E r \in Reqs :
        /\ req[r].notaId = n._id
        /\ req[r].pc = "done" /\ req[r].status = 201
        /\ n.pdfFileId = req[r].fileId

\* No step changes or clears the pdfFileId of a Record that has one.
C10_Step ==
  \A n \in notas, m \in notas' :
    (m._id = n._id /\ n.pdfFileId /= NoFile) => m.pdfFileId = n.pdfFileId

\* C10: the pdfFileId of a Record is absent in every state before the upload
\* of its POST has finished, and once set no later operation changes it: it
\* is set at most once in the lifetime of the Record.
C10_SetOnce == []C10_AbsentUntilAttached /\ [][C10_Step]_vars

\* C10 witness: a Record has its pdfFileId while another POST has attached
\* a file of its own to another Record.
C10_Witness ==
  \E n \in notas, r \in Reqs :
    /\ n.pdfFileId /= NoFile
    /\ req[r].notaId /= n._id
    /\ req[r].pc = "done" /\ req[r].status = 201
    /\ req[r].fileId /= n.pdfFileId

\* C11: every POST answered 409, whether the conflict is on numero or on
\* chaveNFe, carries the summary of the conflicting Record (notaExistente: id,
\* numero, chaveNFe, criadoEm): the Record it names has the numero or the
\* chaveNFe of the request.
C11_ConflictCarriesSummary ==
  \A r \in Reqs :
    (req[r].pc = "done" /\ req[r].status = 409)
    => /\ req[r].seen /= NoFile
       /\ \E n \in notas :
            /\ n._id = req[r].seen
            /\ n.numero = req[r].numero \/ n.chaveNFe = req[r].chaveNFe

\* The numero lookup of a POST, run while a Record with its numero and a
\* Record with its chaveNFe are persisted: 409 from that lookup, with the
\* Record that has the numero, and no write.
C12_Step ==
  \A q \in Reqs :
    (/\ req[q].pc = "findNumero" /\ req'[q].pc /= "findNumero"
     /\ req'[q].fault /= "store"
     /\ \E n \in notas : n.numero = req[q].numero
     /\ \E m \in notas : m.chaveNFe = req[q].chaveNFe)
    => /\ req'[q].pc = "done" /\ req'[q].status = 409
       /\ req'[q].endpc = "findNumero"
       /\ \E n \in notas : n._id = req'[q].seen /\ n.numero = req[q].numero
       /\ store' = store

\* C12: when the document of a POST collides with the collection on both keys
\* (a Record has its numero and a Record, the same or another, has its
\* chaveNFe), the numero collision is the one reported: the 409 carries the
\* Record with the same numero.
C12_NumeroReportedFirst == [][C12_Step]_vars

\* C12 witness: a POST was answered 409 with the Record that has its numero
\* while another Record has its chaveNFe.
C12_Witness ==
  \E q \in Reqs, n \in notas, m \in notas :
    /\ req[q].pc = "done" /\ req[q].status = 409 /\ req[q].endpc = "findNumero"
    /\ n._id = req[q].seen /\ n.numero = req[q].numero
    /\ m /= n /\ m.chaveNFe = req[q].chaveNFe

\* The order of the awaits of router.post("/"): findNumero and findChave are
\* the duplicate check (the file was parsed and the keys extracted before
\* the first), save follows the normalization and inserts the Record,
\* render produces the PDF, upload writes it to the bucket, attach sets
\* pdfFileId on the Record.
PipelineSteps ==
  { <<"idle", "findNumero">>, <<"findNumero", "findChave">>,
    <<"findChave", "save">>, <<"save", "render">>, <<"render", "upload">>,
    <<"upload", "attach">> }

\* Every step of a POST moves it to the next stage, or ends it: with 201 from
\* the attach stage only, with a failure from any stage (or, from the upload
\* stage, without an answer).
C13_Order ==
  \A r \in Reqs :
    req'[r].pc /= req[r].pc
    => \/ <<req[r].pc, req'[r].pc>> \in PipelineSteps
       \/ /\ req'[r].pc = "done" /\ req'[r].status = 201 /\ req[r].pc = "attach"
       \/ /\ req'[r].pc = "done" /\ req'[r].status \in {400, 409, 500}
          /\ req[r].pc /= "done"
       \/ req[r].pc = "upload" /\ req'[r].pc = "pending"

\* The step that answers 201: the Record of the request is persisted with
\* pdfFileId set to the id of its upload, which finished before (its file is
\* in the bucket as long as no DELETE was received).
C13_AnswerStep ==
  \A r \in Reqs :
    (req[r].pc /= "done" /\ req'[r].pc = "done" /\ req'[r].status = 201)
    => /\ req[r].fileId /= NoFile
       /\ \E n \in notas' :
            /\ n._id = req[r].notaId /\ n.pdfFileId = req[r].fileId
            /\ n.numero = req[r].numero /\ n.chaveNFe = req[r].chaveNFe
       /\ NoDeleteYet =>
            req[r].fileId \in pdfsFiles' /\ req[r].fileId \in pdfsChunks'

\* C13: a POST goes through parse, key extraction, duplicate check,
\* normalization, insert, render, upload and attach in that order, skipping
\* none (or leaves to a failure); 201 is answered only after the Record was
\* inserted, the upload finished and the Record was updated with the file id,
\* so that at the answer the Record is persisted with pdfFileId set.
C13_PipelineOrder == [][C13_Order]_vars /\ [][C13_AnswerStep]_vars

\* C13 witness: a POST was answered 201; its Record is persisted with the id
\* of its file, and the file is in the bucket.
C13_Witness ==
  \E r \in Reqs, n \in notas :
    /\ req[r].pc = "done" /\ req[r].status = 201 /\ req[r].endpc = "attach"
    /\ n._id = req[r].notaId /\ n.pdfFileId = req[r].fileId
    /\ req[r].fileId \in pdfsFiles

\* The documents C14 is about: no nfeProc.NFe.infNFe nesting; numero or
\* chaveNFe empty or absent (an absent ide included); total absent or vNF not
\* a number.
C14_Malformed(d) ==
  /\ d.file /\ d.xml
  /\ \/ ~d.struct
     \/ ~d.ide
     \/ ~Truthy(d.nNF)
     \/ ~Truthy(extrairChaveNFe(d))
     \/ ~d.total
     \/ d.vNF = "nan"

\* C14: a POST whose document lacks the nfeProc.NFe.infNFe nesting, whose
\* numero or chaveNFe is empty or absent (an absent ide element included), or
\* whose total is absent or not a number, is answered 400 and never 500
\* (unless a store call failed or a duplicate was found first).
C14_MalformedIs400 ==
  \A r \in Reqs :
    (/\ req[r].pc = "done" /\ C14_Malformed(req[r].doc)
     /\ req[r].fault = "none" /\ req[r].status /= 409)
    => req[r].status = 400

\* The step at which Nota.findByIdAndDelete(id) resolves: with no Record of
\* that id, 404 and nothing changes; with a Record that has no pdfFileId, the
\* Record alone is removed and 200 is answered; with a Record that has one,
\* the Record is removed and bucket.delete is called for its file.
C15_FindStep ==
  \A d \in Dels :
    (/\ del[d].pc \in {"idle", "done"} /\ del'[d] /= del[d]
     /\ del'[d].route = "id" /\ del'[d].id /= NoFile)
    => LET found == {n \in notas : n._id = del'[d].id}
       IN /\ UNCHANGED <<pdfsFiles, pdfsChunks>>
          /\ notas' = notas \ found
          /\ found = {} =>
               del'[d].pc = "done" /\ del'[d].status = 404
          /\ \A n \in found :
               IF n.pdfFileId = NoFile
                 THEN del'[d].pc = "done" /\ del'[d].status = 200
                 ELSE del'[d].pc = "bucket" /\ del'[d].pdfFileId = n.pdfFileId

\* The step at which bucket.delete has run: the file of the Record, and no
\* other, is removed from the bucket, and 200 is answered.
C15_BucketStep ==
  \A d \in Dels :
    (del[d].pc = "bucket" /\ del'[d].pc = "done" /\ del'[d].fault = "none")
    => /\ del'[d].status = 200
       /\ pdfsFiles' = pdfsFiles \ {del[d].pdfFileId}
       /\ pdfsChunks' = pdfsChunks \ {del[d].pdfFileId}
       /\ notas' = notas

\* After a single deletion answered 200 whose bucket.delete did not fail, no
\* Record has the id and the file of the Record is not in the bucket.
C15_Removed ==
  \A d \in Dels :
    (/\ del[d].pc = "done" /\ del[d].route = "id" /\ del[d].status = 200
     /\ del[d].fault = "none")
    => /\ \A n \in notas : n._id /= del[d].id
       /\ del[d].pdfFileId /= NoFile =>
            del[d].pdfFileId \notin pdfsFiles \cup pdfsChunks

\* C15: DELETE /api/notas/:id answers 404 and changes neither the collection
\* nor the bucket when no Record has the id; removes the Record and its file
\* when the Record has a pdfFileId; removes the Record alone, touching no
\* file, when it has none.
C15_SingleDeletion ==
  [][C15_FindStep]_vars /\ [][C15_BucketStep]_vars /\ []C15_Removed

\* C15 witness: a DELETE by id was answered 200 after it removed a Record and
\* its file, while another Record and another file stay.
C15_Witness ==
  \E d \in Dels, n \in notas :
    /\ del[d].pc = "done" /\ del[d].route = "id" /\ del[d].status = 200
    /\ del[d].fault = "none" /\ del[d].pdfFileId /= NoFile
    /\ n._id /= del[d].id
    /\ pdfsFiles /= {} /\ pdfsChunks = pdfsFiles

\* The step at which bucket.delete rejects: 200 is answered all the same, no
\* Record comes back, and the file is left behind: none of its chunks is
\* removed, and its file document stays unless bucket.delete had removed it
\* before it failed.
C16_Step ==
  \A d \in Dels :
    (del[d].pc = "bucket" /\ del'[d].pc = "done" /\ del'[d].fault = "bucket")
    => /\ del'[d].status = 200
       /\ del'[d].id = del[d].id /\ del'[d].pdfFileId = del[d].pdfFileId
       /\ notas' = notas
       /\ pdfsChunks' = pdfsChunks
       /\ pdfsFiles' \in {pdfsFiles, pdfsFiles \ {del[d].pdfFileId}}

\* A single deletion whose bucket.delete failed was answered 200 and its
\* Record is not in the collection.
C16_Deleted ==
  \A d \in Dels :
    (del[d].pc = "done" /\ del[d].fault = "bucket")
    => /\ del[d].status = 200 /\ del[d].route = "id"
       /\ \A n \in notas : n._id /= del[d].id

C17_AnswerStep ==
  \A d \in Dels :
    (/\ del[d].route = "all" /\ del[d].pc /= "done"
     /\ del'[d].pc = "done" /\ del'[d].status = 200)
    => notas' = {} /\ pdfsFiles' = {} /\ pdfsChunks' = {}

\* While a DELETE / answered 200 is the last request answered, the
\* collection and the bucket are empty.
C17_Empty ==
  \A d \in Dels :
    (del[d].pc = "done" /\ del[d].route = "all" /\ del[d].status = 200)
    => notas = {} /\ pdfsFiles = {} /\ pdfsChunks = {}

\* C17: after a DELETE /api/notas that completes with 200 while no ingestion
\* runs, the collection is empty and the bucket is empty, the files no Record
\* referred to included.
C17_BulkClearsAll == [][C17_AnswerStep]_vars /\ []C17_Empty

\* A DELETE / is about to clear pdfs.chunks, which still holds the chunks of
\* the file no Record referred to; the Records and pdfs.files are cleared.
C17_WitnessOrphanPending ==
  \E d \in Dels :
    /\ del[d].pc = "chunks" /\ del[d].route = "all"
    /\ notas = {} /\ pdfsFiles = {}
    /\ OrphanFile \in pdfsChunks

\* C17 witness: a DELETE / on the database of three Records, two referenced
\* files and one unreferenced file was answered 200, and everything is empty.
C17_Witness ==
  \E d \in Dels :
    /\ del[d].pc = "done" /\ del[d].route = "all" /\ del[d].status = 200
    /\ notas = {} /\ pdfsFiles = {} /\ pdfsChunks = {}

\* The steps of DELETE /api/notas: each clears one collection and leaves the
\* other two as they are, the Records first; a store call that rejects after
\* the first ends the request with 500 and restores nothing.
C18_Steps ==
  \A d \in Dels :
    /\ (del[d].pc \in {"idle", "done"} /\ del'[d].pc = "files")
       => notas' = {} /\ UNCHANGED <<pdfsFiles, pdfsChunks>>
    /\ (del[d].pc = "files" /\ del'[d].pc = "chunks")
       => pdfsFiles' = {} /\ UNCHANGED <<notas, pdfsChunks>>
    /\ (del[d].pc \in {"files", "chunks"} /\ del'[d].pc = "done"
        /\ del'[d].status = 500)
       => store' = store

\* C18: DELETE /api/notas is not atomic across the collection and the
\* bucket: an interruption between its steps leaves one side cleared and the
\* other not, so a state in which the collection is empty while the bucket
\* still holds files is reachable.
C18_BulkNotAtomic == [][C18_Steps]_vars

\* C18 witness: a DELETE / ended with 500 after its first step: the
\* collection is empty, pdfs.files and pdfs.chunks still hold files.
C18_Witness ==
  \E d \in Dels :
    /\ del[d].pc = "done" /\ del[d].route = "all" /\ del[d].status = 500
    /\ del[d].at = "files"
    /\ notas = {} /\ pdfsFiles /= {} /\ pdfsChunks /= {}

\* The step at which a GET /api/notas/:id/pdf is received: with the store
\* unavailable at that time, 503 is answered.
C19_Unavailable ==
  \A g \in Gets :
    (/\ get[g].pc \in {"idle", "done"} /\ get'[g] /= get[g]
     /\ readyState = 0)
    => get'[g].pc = "done" /\ get'[g].status = 503

\* The step at which Nota.findById has resolved: with no Record of the id, or
\* a Record without pdfFileId, 404 is answered.
C19_NotFound ==
  \A g \in Gets :
    (/\ get[g].pc = "find" /\ get'[g].pc /= "find" /\ get'[g].status /= 500
     /\ \A n \in notas : n._id = get[g].id => n.pdfFileId = NoFile)
    => get'[g].pc = "done" /\ get'[g].status = 404

\* C19: GET /api/notas/:id/pdf answers 404 whenever the Record does not exist
\* or has no pdfFileId, and 503 whenever the store is unavailable when the
\* request is received, also when the connection was established at startup
\* and lost later.
C19_PdfAnswers == [][C19_NotFound]_vars /\ [][C19_Unavailable]_vars

\* A GET for a Record without pdfFileId was answered 404, and a GET received
\* while bucket was not set was answered 503.
C19_ReachedAnswers ==
  \E g \in Gets, h \in Gets :
    /\ get[g].pc = "done" /\ get[g].status = 404
    /\ \E n \in notas : n._id = get[g].id /\ n.pdfFileId = NoFile
    /\ get[h].pc = "done" /\ get[h].status = 503

\* C20: every POST that was received is eventually answered (it reaches the
\* 201 answer or a failure answer), given that every store call returns,
\* gerarPDF returns a stream or throws, and every stream signals completion
\* or an error.
C20_EveryPostAnswers ==
  \A r \in Reqs : (req[r].pc /= "idle") ~> (req[r].pc = "done")

\* A POST is left without an answer after the stream of gerarPDF failed.
C20_ReachedPending ==
  \E r \in Reqs : req[r].pc = "pending" /\ req[r].fault = "pdfStream"

\* A string-or-undefined value that is empty or absent.
C21_Empty(v) == v = Undefined \/ v = <<>>

\* The documents C21 is about: the file parses and has the infNFe nesting
\* with its ide element, and infNFe.ide.nNF or the stripped identifier is
\* empty or absent (an identifier that is exactly 'NFe' strips to "").
C21_MissingIdentity(d) ==
  /\ d.file /\ d.xml /\ d.struct /\ d.ide
  /\ \/ C21_Empty(d.nNF)
     \/ C21_Empty(extrairChaveNFe(d))

\* Every Record of the collection has a non-empty numero and chaveNFe.
C21_NonEmptyKeys ==
  \A n \in notas : ~C21_Empty(n.numero) /\ ~C21_Empty(n.chaveNFe)

\* The step that receives such a document answers 400 at the key check and
\* leaves the store alone.
C21_Step ==
  \A r \in Reqs :
    (req[r].pc = "idle" /\ req'[r].pc /= "idle"
     /\ C21_MissingIdentity(req'[r].doc))
    => /\ req'[r].pc = "done" /\ req'[r].status = 400
       /\ req'[r].endpc = "keys"
       /\ store' = store

\* Such a request never issued Nota.findOne nor took a Record _id.
C21_NoLookup ==
  \A r \in Reqs :
    (req[r].pc /= "idle" /\ C21_MissingIdentity(req[r].doc))
    => /\ req[r].pc = "done" /\ req[r].endpc = "keys"
       /\ req[r].numero = Undefined /\ req[r].chaveNFe = Undefined
       /\ req[r].notaId = NoFile

C22_N == Cardinality(Matching(notas, list.numero))

\* min(l, max(0, N - (p - 1) * l))
C22_PageSize(N, p, l) ==
  LET rest == IF N - (p - 1) * l > 0 THEN N - (p - 1) * l ELSE 0
  IN IF l < rest THEN l ELSE rest

\* ceil(N / l): the least k with k * l >= N
C22_Ceil(N, l) == CHOOSE k \in 0..N : k * l >= N /\ \A j \in 0..N : j * l >= N => k <= j

\* Each answered page has the size, totalItems and totalPages of the claim.
C22_Counts ==
  \A p \in Pages :
    list.pages[p].status = 200
    => /\ Len(list.pages[p].notas) = C22_PageSize(C22_N, p, list.limit)
       /\ list.pages[p].pagination.totalItems = C22_N
       /\ list.pages[p].pagination.totalPages = C22_Ceil(C22_N, list.limit)

\* Once the pages 1..totalPages of the query are all answered, each matching
\* Record is on exactly one of them, once.
C22_Partition ==
  LET last == C22_Ceil(C22_N, list.limit)
  IN (list.limit > 0 /\ \A p \in 1..last : p \in Pages /\ list.pages[p].status = 200)
     => \A n \in Matching(notas, list.numero) :
          Cardinality({pi \in (1..last) \X (1..list.limit) :
                         /\ pi[2] <= Len(list.pages[pi[1]].notas)
                         /\ list.pages[pi[1]].notas[pi[2]] = n._id}) = 1

\* C22: for page p and limit l over N matching Records the listing returns
\* min(l, max(0, N - (p - 1) * l)) Records with totalItems N and totalPages
\* ceil(N / l) (page 2 of 15 with limit 10: 5 Records, 2 pages), and the pages
\* 1..totalPages of an unchanged collection together hold each matching Record
\* exactly once.
C22_Pagination ==
  /\ C22_Counts
  /\ C22_Partition
  /\ Len(SkipLimit([i \in 1..15 |-> i], (2 - 1) * 10, 10)) = 5
  /\ TotalPages(15, 10) = 2

\* Two pages of one query were answered with the same Record on both.
C22_ReachedRepeat ==
  \E p, q \in Pages :
    /\ p < q /\ list.pages[p].status = 200 /\ list.pages[q].status = 200
    /\ list.pages[p].notas /= <<>> /\ list.pages[p].notas = list.pages[q].notas

\* The identifier of the element that extrairChaveNFe was called on.
C23_Id == IF call.arg.attrs THEN call.arg.attrId ELSE call.arg.id

\* The identifier v begins with the three characters N, F, e.
C23_HasPrefix(v) ==
  v /= Undefined /\ Len(v) >= 3 /\ v[1] = "N" /\ v[2] = "F" /\ v[3] = "e"

\* The result is the identifier without its leading 'NFe', removed once; an
\* identifier without the prefix is returned as it is.
C23_StrippedOnce ==
  call.fn = "extrairChaveNFe"
  => IF C23_HasPrefix(C23_Id) THEN <<"N", "F", "e">> \o call.out = C23_Id
     ELSE call.out = C23_Id

\* Applying the function to its own result returns that result.
C23_Fixpoint ==
  (call.fn = "extrairChaveNFe" /\ call'.fn = "extrairChaveNFe")
  => call'.out = call.out

\* C23: extrairChaveNFe removes a leading 'NFe' once and returns an identifier
\* without the prefix unchanged, and it is idempotent: applied to its own
\* result it returns that result, for every identifier.
C23_StripIdempotent ==
  /\ []C23_StrippedOnce
  /\ [][C23_Fixpoint]_vars

\* Applied to a result that does not begin with 'NFe', the function returns
\* it; applied to a result that does, it removes the prefix once more.
C23_FixpointUnlessPrefixed ==
  (call.fn = "extrairChaveNFe" /\ call'.fn = "extrairChaveNFe")
  => IF C23_HasPrefix(call.out) THEN <<"N", "F", "e">> \o call'.out = call.out
     ELSE call'.out = call.out

\* C23 (amended): extrairChaveNFe removes a leading 'NFe' once and returns an
\* identifier without the prefix unchanged; applied to its own result it
\* returns that result unless the result itself begins with 'NFe' (the
\* identifier began with 'NFeNFe'), in which case the prefix is removed again.
C23_StripOnce ==
  /\ []C23_StrippedOnce
  /\ [][C23_FixpointUnlessPrefixed]_vars

\* The function was applied to an identifier that begins with 'NFeNFe' and
\* then to its result, which lost a second prefix.
C23_Witness ==
  /\ call.fn = "extrairChaveNFe" /\ call.calls = 2
  /\ call.arg.attrs /\ call.arg.attrId = <<"N", "F", "e", "1">>
  /\ call.out = <<"1">>

\* C24: produtos of a normalized Record is always a sequence: a document with
\* a single det object gives the one-element sequence of that item's prod, and
\* a document with an array of N det items gives their N prod sub-objects in
\* the same order.
C24_ProdutosIsSequence ==
  (call.fn = "produtos" /\ call.arg.kind /= "absent")
  => /\ call.out.error = "none"
     /\ DOMAIN call.out.produtos = 1..Len(call.out.produtos)
     /\ call.arg.kind = "single"
        => /\ Len(call.out.produtos) = 1
           /\ call.out.produtos[1] = call.arg.item.prod
     /\ call.arg.kind = "array"
        => /\ Len(call.out.produtos) = Len(call.arg.items)
           /\ \A i \in 1..Len(call.arg.items) :
                call.out.produtos[i] = call.arg.items[i].prod

\* produtos was computed for an array of three items with different products.
C24_Witness ==
  /\ call.fn = "produtos" /\ call.arg.kind = "array"
  /\ Len(call.arg.items) = 3
  /\ call.arg.items[1].prod /= call.arg.items[2].prod
  /\ call.out.produtos = <<call.arg.items[1].prod, call.arg.items[2].prod,
                           call.arg.items[3].prod>>

\* produtos was computed for a single det object.
C24_WitnessSingle ==
  /\ call.fn = "produtos" /\ call.arg.kind = "single"
  /\ call.out.produtos = <<"p2">>

\* The ingestion r inserted its Record and then failed at the render, at the
\* blob write or at the attach (or was left without an answer when the
\* renderer's stream failed).
C25_Failed(r) ==
  \/ /\ req[r].pc = "done" /\ req[r].status = 500
     /\ req[r].endpc \in {"render", "upload", "attach"}
  \/ req[r].pc = "pending"

\* The Records such an ingestion left without pdfFileId.
C25_Left(r) ==
  {n \in notas : n._id = req[r].notaId /\ n.pdfFileId = NoFile}

\* No step sets the pdfFileId of a Record that a failed ingestion left
\* without one.
C25_Step ==
  \A r \in Reqs :
    C25_Failed(r)
    => \A n \in C25_Left(r) :
         \A m \in notas' : m._id = n._id => m.pdfFileId = NoFile

\* The lookup by numero of a request that re-submits the document of such a
\* Record finds it: 409 at the pre-check, and the store is left alone.
C25_Resubmit ==
  \A r, q \in Reqs :
    (/\ C25_Failed(r) /\ C25_Left(r) /= {}
     /\ req[q].pc = "findNumero"
     /\ req[q].numero = req[r].numero /\ req[q].chaveNFe = req[r].chaveNFe
     /\ req'[q] /= req[q] /\ req'[q].fault = "none")
    => /\ req'[q].pc = "done" /\ req'[q].status = 409
       /\ req'[q].endpc = "findNumero"
       /\ store' = store

\* C25: once an ingestion has failed at the render, the blob write or the
\* attach and left a Record without pdfFileId, no later step of any ingestion
\* sets that Record's pdfFileId, and a re-submission of the same document is
\* answered 409 by the pre-check.
C25_NeverRepaired ==
  /\ [][C25_Step]_vars
  /\ [][C25_Resubmit]_vars

\* An ingestion failed after its insert, its Record is there without
\* pdfFileId, and a re-submission of the same document was answered 409 at
\* the lookup by numero, having seen that Record.
C25_Witness ==
  \E r, q \in Reqs :
    /\ r /= q /\ C25_Failed(r) /\ C25_Left(r) /= {}
    /\ req[q].pc = "done" /\ req[q].status = 409
    /\ req[q].endpc = "findNumero"
    /\ req[q].numero = req[r].numero /\ req[q].chaveNFe = req[r].chaveNFe
    /\ req[q].seen = req[r].notaId

\* The Record of the ingestion r is not in the collection.
C26_Gone(r) == ~\E n \in notas : n._id = req[r].notaId

\* The second save of r settles (no store failure) after its Record was
\* deleted.
C26_AttachOfGone(r) ==
  /\ req[r].pc = "attach" /\ req'[r].pc = "done" /\ req'[r].fault = "none"
  /\ C26_Gone(r)

\* That step answers 500, re-creates no Record and removes nothing.
C26_Step ==
  \A r \in Reqs :
    C26_AttachOfGone(r)
    => /\ req'[r].status = 500
       /\ store' = store
       /\ ~\E n \in notas' : n._id = req[r].notaId \/ n.pdfFileId = req[r].fileId

\* At that step the blob the ingestion uploaded is in the blob store.
C26_BlobLeft ==
  \A r \in Reqs :
    C26_AttachOfGone(r)
    => req[r].fileId \in pdfsFiles' /\ req[r].fileId \in pdfsChunks'

\* C26: when the Record is deleted (singly or in bulk) while its ingestion is
\* between the insert and the attach, the second save does not re-create it,
\* the ingestion does not report success, and the blob it uploaded is left in
\* the blob store, referenced by no Record.
C26_DeletedDuringIngestion ==
  /\ [][C26_Step]_vars
  /\ [][C26_BlobLeft]_vars

\* The ingestion r ended at its second save because its Record was gone.
C26_Lost(r) ==
  /\ req[r].pc = "done" /\ req[r].endpc = "attach"
  /\ req[r].status = 500 /\ req[r].fault = "none"

\* After such an end no Record has the _id of the ingestion nor refers to its
\* blob.
C26_NoRecord ==
  \A r \in Reqs :
    C26_Lost(r)
    => ~\E n \in notas : n._id = req[r].notaId \/ n.pdfFileId = req[r].fileId

\* The blob of an ingestion that waits for its second save, or that ended
\* there with its Record gone, leaves pdfs.files only when the bulk deletion
\* clears pdfs.files, and pdfs.chunks only when it clears pdfs.chunks.
C26_BlobStays ==
  \A r \in Reqs :
    (req[r].pc = "attach" \/ C26_Lost(r))
    => /\ (req[r].fileId \in pdfsFiles /\ req[r].fileId \notin pdfsFiles')
          => \E d \in Dels : /\ del[d].route = "all" /\ del[d].pc = "files"
                             /\ del'[d].pc = "chunks"
       /\ (req[r].fileId \in pdfsChunks /\ req[r].fileId \notin pdfsChunks')
          => \E d \in Dels : /\ del[d].route = "all" /\ del[d].pc = "chunks"
                             /\ del'[d].pc = "done"

\* C26 (amended): when the Record is deleted (singly or in bulk) while its
\* ingestion is between the insert and the attach, the second save does not
\* re-create it, the ingestion answers 500, and no Record refers to the blob
\* it uploaded; the blob stays in the blob store unless the bulk deletion
\* clears pdfs.files or pdfs.chunks after the upload finished.
C26_AttachAfterDeletion ==
  /\ [][C26_Step]_vars
  /\ []C26_NoRecord
  /\ [][C26_BlobStays]_vars

\* A single deletion removed the Record of an ingestion that then ended at its
\* second save with 500; its blob is in the blob store.
C26_Witness ==
  \E r \in Reqs, d \in Dels :
    /\ C26_Lost(r)
    /\ del[d].pc = "done" /\ del[d].route = "id" /\ del[d].status = 200
    /\ del[d].id = req[r].notaId
    /\ req[r].fileId \in pdfsFiles /\ req[r].fileId \in pdfsChunks

\* A bulk deletion cleared the collections after the upload of an ingestion
\* that then ended at its second save with 500; its blob is gone.
C26_WitnessBulk ==
  \E r \in Reqs, d \in Dels :
    /\ C26_Lost(r)
    /\ del[d].pc = "done" /\ del[d].route = "all" /\ del[d].status = 200
    /\ req[r].fileId \notin pdfsFiles /\ req[r].fileId \notin pdfsChunks

\* The single deletion d found and removed the Record of its id.
C27_Removed(d) ==
  /\ del[d].route = "id" /\ del[d].id /= NoFile
  /\ \/ del[d].pc = "bucket"
     \/ del[d].pc = "done" /\ del[d].status = 200

\* Of the deletions of one id at most one removed the Record, and at most one
\* has the blob of that Record to delete.
C27_AtMostOne ==
  \A d, e \in DOMAIN del :
    (d /= e /\ del[d].id = del[e].id)
    => /\ ~(C27_Removed(d) /\ C27_Removed(e))
       /\ ~(del[d].pdfFileId /= NoFile /\ del[e].pdfFileId /= NoFile)

\* When findByIdAndDelete of a deletion resolves: with the Record there, it is
\* removed and the request goes on to success; with the Record gone, 404.
C27_FindStep ==
  \A d \in DOMAIN del :
    (del'[d] /= del[d] /\ del[d].pc \in {"idle", "done"}
     /\ del'[d].id /= NoFile /\ del'[d].fault = "none")
    => IF \E n \in notas : n._id = del'[d].id
         THEN /\ ~\E n \in notas' : n._id = del'[d].id
              /\ del'[d].pc = "bucket" \/ del'[d].status = 200
         ELSE /\ del'[d].pc = "done" /\ del'[d].status = 404
              /\ store' = store

\* C27: of two single deletions of the same existing id that interleave,
\* exactly one removes the Record and reports success and the other is
\* answered 404; the blob deletion is attempted at most once.
C27_OneDeletionWins ==
  /\ []C27_AtMostOne
  /\ [][C27_FindStep]_vars

\* Two deletions of one Record interleave: one has removed the Record and is
\* about to delete its blob, the other was answered 404 in between.
C27_Witness ==
  \E d, e \in DOMAIN del :
    /\ d /= e /\ del[d].id = del[e].id /\ del[d].id \in SeedIds
    /\ del[d].pc = "bucket" /\ del[d].pdfFileId \in pdfsFiles
    /\ del[e].pc = "done" /\ del[e].status = 404

\* No deletion is between the removal of Records and the removal of their
\* blobs.
C28_Quiet == \A d \in Dels : ~DelBusy(d)

\* The blob f was uploaded by an ingestion that has finished.
C28_Finished(f) == \E r \in Reqs : req[r].fileId = f /\ req[r].pc = "done"

====
